---- MODULE Spec2Model ----
(***************************************************************************)
(* Model of cricket.py: a linear batch pipeline                            *)
(*   load -> merge -> sample -> fillna -> astype -> cluster -> aggregate   *)
(*        -> export (3 CSV files) -> print -> heatmap -> bar chart.        *)
(* Tables are sequences of records; NaN is the integer -1 (no catalogue    *)
(* value is negative); batter, bowler and match identifiers are positive   *)
(* integers standing for the names in the files.                           *)
(***************************************************************************)
EXTENDS Integers, Sequences, FiniteSets, TLC

VARIABLES
    match_file,      \* contents of cleaned_match_info.csv (input)
    delivery_file,   \* contents of cleaned_deliveries.csv (input)
    missing_column,  \* a required column the delivery file lacks, or "none"
    pc,              \* position of the script
    run,             \* how many times the script has been started
    match_df, delivery_df, df,
    categorical,     \* the columns of df held as category dtype
    kmeans_seed42,   \* what KMeans(random_state=42) yields on this input, once fitted
    batter_stats, bowler_trends, bowler_economy,
    files,           \* the five output files on disk
    prev_files,      \* the output files as the previous run left them
    stdout,          \* lines printed by the current run
    traceback        \* the statement whose exception ended the current run, or "none"

vars == <<match_file, delivery_file, missing_column, pc, run, match_df, delivery_df,
          df, categorical, kmeans_seed42, batter_stats, bowler_trends, bowler_economy, files,
          prev_files, stdout, traceback>>

\* ------------------------------------------------------------------ bounds
MaxDeliveries == 15   \* rows of the delivery file
MaxRuns == 2          \* runs of the script on the same input files

\* ------------------------------------------------------- program constants
NaN == -1
NClusters == 4
ClipUpper == 250
TopN == 20
FracNum == 3          \* frac = 0.3 = FracNum / FracDen
FracDen == 10

Labels == 0 .. (NClusters - 1)

BATTER_CSV == "output_batter_patterns.csv"
TRENDS_CSV == "output_bowler_trends.csv"
ECONOMY_CSV == "output_bowler_economy.csv"
HEATMAP_PNG == "batter_strike_rate_heatmap_top20.png"
BARCHART_PNG == "bowler_delivery_distribution_top20.png"
CsvFiles == {BATTER_CSV, TRENDS_CSV, ECONOMY_CSV}
PngFiles == {HEATMAP_PNG, BARCHART_PNG}
OutputFiles == CsvFiles \cup PngFiles

COMPLETE_MSG == "Analysis complete. CSVs saved."
HEATMAP_WARNING == "Strike rate heatmap generation failed"
BARCHART_WARNING == "Horizontal bar chart generation failed"

\* ---------------------------------------------------------------- helpers
RECURSIVE SumSeq(_)
SumSeq(s) == IF s = <<>> THEN 0 ELSE Head(s) + SumSeq(Tail(s))

Column(t, c) == [i \in 1 .. Len(t) |-> t[i][c]]
NotNull(s) == SelectSeq(s, LAMBDA v : v # NaN)

RECURSIVE SortedSeq(_)
\* the elements of a finite set of integers in ascending order
SortedSeq(S) ==
    IF S = {} THEN <<>>
    ELSE LET m == CHOOSE x \in S : \A y \in S : x <= y
         IN  <<m>> \o SortedSeq(S \ {m})

\* ------------------------------------------------------------ input files
Delivery(m, o, bn, bat, bow, r, p, e, sr) ==
    [match_id |-> m, over |-> o, ball_number |-> bn, batter |-> bat, bowler |-> bow,
     runs_batter |-> r, pressure_index |-> p, bowler_economy |-> e,
     batter_strike_rate |-> sr]

DeliveryRows ==
    { Delivery(1, 1, 1, 1, 1, 4, 2, 6, 150),
      Delivery(1, 1, 2, 2, 1, 0, 3, 6, NaN),
      Delivery(2, 2, 1, 1, 2, 1, 2, 8, 300),
      Delivery(3, 1, 1, 2, 2, 6, 2, 6, 200),
      Delivery(1, 2, NaN, NaN, 2, NaN, NaN, 8, 100) }

Match(m, v) == [match_id |-> m, venue |-> v]

MatchFiles ==
    { <<Match(1, 10), Match(2, NaN), Match(3, 30)>>,
      <<Match(1, 10), Match(2, 20), Match(4, 40)>>,
      <<Match(2, 20)>> }

MissingColumns == {"none", "match_id", "batter", "pressure_index", "runs_batter"}

\* the periods of the delivery files: every two-row period, and one period
\* whose sampled rows carry four distinct feature vectors
VariedPeriod ==
    << Delivery(1, 1, 1, 1, 1, 4, 2, 6, 150),
       Delivery(1, 1, 2, 2, 1, 0, 3, 6, NaN),
       Delivery(2, 2, 1, 1, 2, 1, 2, 8, 300),
       Delivery(1, 2, NaN, NaN, 2, NaN, NaN, 8, 100),
       Delivery(1, 2, NaN, NaN, 2, NaN, NaN, 8, 100),
       Delivery(1, 1, 2, 2, 1, 0, 3, 6, NaN),
       Delivery(1, 1, 2, 2, 1, 0, 3, 6, NaN) >>

Periods == {<<a, b>> : a \in DeliveryRows, b \in DeliveryRows} \cup {VariedPeriod}

\* a delivery file of n rows that repeats the period p
DeliveryFile(p, n) == [i \in 1 .. n |-> p[((i - 1) % Len(p)) + 1]]

NoFile == [state |-> "absent", by |-> 0, data |-> <<>>]

\* ------------------------------------------------------------------ merge
\* delivery_df.merge(match_df, on='match_id'): inner join, left order kept,
\* one output row per (delivery, match) pair with equal match_id, fresh index
RECURSIVE JoinRows(_, _)
JoinRows(left, right) ==
    IF left = <<>> THEN <<>>
    ELSE LET d == Head(left)
             ms == SelectSeq(right, LAMBDA m : m.match_id = d.match_id)
         IN  [i \in 1 .. Len(ms) |-> d @@ [venue |-> ms[i].venue]]
             \o JoinRows(Tail(left), right)

Merge(left, right) ==
    LET j == JoinRows(left, right)
    IN  [i \in 1 .. Len(j) |-> j[i] @@ [index |-> i - 1]]

\* ----------------------------------------------------------------- sample
\* mutant: ties rounded up
SampleSizeHalfUp(n) == (2 * FracNum * n + FracDen) \div (2 * FracDen)

\* size = round(frac * len): Python's round, ties to the even integer
SampleSize(n) ==
    LET q == (FracNum * n) \div FracDen
        r == (FracNum * n) % FracDen
    IN  IF 2 * r < FracDen THEN q
        ELSE IF 2 * r > FracDen THEN q + 1
        ELSE IF q % 2 = 0 THEN q ELSE q + 1

\* numpy RandomState(42): the low byte of each successive 32-bit output of
\* MT19937 seeded with init_genrand(42)
MT19937_42 ==
    << 102, 179, 92, 14, 106, 71, 188, 20, 102, 121, 210, 214, 74, 202, 87, 116,
       99, 103, 151, 130, 149, 52, 1, 87, 235, 157, 37, 129, 191, 187, 20, 160,
       203, 57, 21, 252, 235, 88, 48, 218, 58, 254, 169, 255, 219, 187, 207, 14,
       189, 189, 174, 189, 50, 107, 54, 243, 63, 248, 130, 228, 50, 134, 20, 72,
       166, 17, 131, 88, 59, 13, 241, 249, 8, 89, 52, 129, 83, 91, 110, 187 >>

RECURSIVE MaskFor(_, _)
\* the smallest 2^k - 1 that is >= max
MaskFor(max, m) == IF m >= max THEN m ELSE MaskFor(max, 2 * m + 1)

RECURSIVE RandomInterval(_, _)
\* a draw in 0 .. max by masked rejection, reading the stream from position pos
RandomInterval(max, pos) ==
    LET v == MT19937_42[pos] % (MaskFor(max, 0) + 1)
    IN  IF v <= max THEN [value |-> v, pos |-> pos + 1]
        ELSE RandomInterval(max, pos + 1)

RECURSIVE Shuffle(_, _, _)
\* Fisher-Yates from the last position down, as RandomState.shuffle does
Shuffle(x, i, pos) ==
    IF i < 1 THEN x
    ELSE LET d == RandomInterval(i, pos)
             j == d.value
         IN  Shuffle([x EXCEPT ![i] = x[j], ![j] = x[i]], i - 1, d.pos)

Permutation(n) == Shuffle([i \in 0 .. (n - 1) |-> i], n - 1, 1)

\* df.sample(frac=0.3, random_state=42): permutation(len)[:size], then take
Sample(t) ==
    LET p == Permutation(Len(t))
    IN  [k \in 1 .. SampleSize(Len(t)) |-> t[p[k - 1] + 1]]

\* ----------------------------------------------------------------- fillna
\* mutant: fillna without inplace=True, its result dropped
FillnaNotInplace(t) == t

\* df.fillna(0): every null of every column becomes 0
Fillna(t) ==
    [i \in 1 .. Len(t) |-> [c \in DOMAIN t[i] |-> IF t[i][c] = NaN THEN 0 ELSE t[i][c]]]

\* astype('category'): the categories are the distinct non-null values
Categories(t, c) == {t[i][c] : i \in 1 .. Len(t)} \ {NaN}

\* ---------------------------------------------------------------- cluster
FeatureColumns == <<"over", "ball_number", "pressure_index", "bowler_economy">>

FeatureVector(r) == [k \in 1 .. Len(FeatureColumns) |-> r[FeatureColumns[k]]]

FeatureVectors(t) == {FeatureVector(t[i]) : i \in 1 .. Len(t)}

\* StandardScaler.fit_transform / KMeans.fit_predict raise ValueError on an
\* empty matrix, on NaN, and when there are fewer samples than clusters
ClusterRaises(t) ==
    \/ Len(t) < NClusters
    \/ \E v \in FeatureVectors(t) : \E k \in DOMAIN v : v[k] = NaN

\* mutant: labels numbered from 1
LabelingsFromOne(t) == [FeatureVectors(t) -> 1 .. NClusters]

\* the labels KMeans(n_clusters=4) can predict: one per row, equal feature
\* vectors get equal labels (predict is the nearest centre), so no more
\* distinct labels than distinct points
Labelings(t) == [FeatureVectors(t) -> Labels]

LabelOf(fit, v) == (CHOOSE p \in fit : p[1] = v)[2]

WithLabels(t, fit) ==
    [i \in 1 .. Len(t) |-> t[i] @@ [delivery_type |-> LabelOf(fit, FeatureVector(t[i]))]]

\* -------------------------------------------------------------- aggregate
\* mean skips nulls; kept as the exact fraction num / den (0/0 is NaN)
Mean(s) == [num |-> SumSeq(NotNull(s)), den |-> Len(NotNull(s))]

RECURSIVE SortedPairs(_)
\* a set of pairs of integers in lexicographic order
SortedPairs(S) ==
    IF S = {} THEN <<>>
    ELSE LET m == CHOOSE x \in S : \A y \in S :
                      x[1] < y[1] \/ (x[1] = y[1] /\ x[2] <= y[2])
         IN  <<m>> \o SortedPairs(S \ {m})

\* mutant: observed=False, every batter category paired with every label
BatterGroupKeysUnobserved(t) ==
    Categories(t, "batter") \X {t[i].delivery_type : i \in 1 .. Len(t)}

\* groupby(['batter', 'delivery_type'], observed=True): the pairs that occur,
\* rows with a null key dropped
BatterGroupKeys(t) ==
    {<<t[i].batter, t[i].delivery_type>> : i \in 1 .. Len(t)}
        \ {k \in {<<t[i].batter, t[i].delivery_type>> : i \in 1 .. Len(t)} :
               k[1] = NaN \/ k[2] = NaN}

BatterStats(t) ==
    LET keys == SortedPairs(BatterGroupKeys(t))
        Group(k) == SelectSeq(t, LAMBDA r : r.batter = k[1] /\ r.delivery_type = k[2])
    IN  [n \in 1 .. Len(keys) |->
            LET g == Group(keys[n])
            IN  [batter |-> keys[n][1],
                 delivery_type |-> keys[n][2],
                 total_runs |-> SumSeq(NotNull(Column(g, "runs_batter"))),
                 avg_runs |-> Mean(Column(g, "runs_batter")),
                 balls_faced |-> Len(NotNull(Column(g, "ball_number"))),
                 avg_strike_rate |-> Mean(Column(g, "batter_strike_rate"))]]

\* mutant: unstack() without fill_value, absent combinations left null
BowlerTrendsNoFill(t) ==
    LET ok == SelectSeq(t, LAMBDA r : r.bowler # NaN /\ r.delivery_type # NaN)
        bowlers == SortedSeq({ok[i].bowler : i \in 1 .. Len(ok)})
        cols == {ok[i].delivery_type : i \in 1 .. Len(ok)}
        Size(b, l) == Len(SelectSeq(ok, LAMBDA r : r.bowler = b /\ r.delivery_type = l))
    IN  [n \in 1 .. Len(bowlers) |->
            [bowler |-> bowlers[n],
             counts |-> [l \in cols |->
                 IF Size(bowlers[n], l) = 0 THEN NaN ELSE Size(bowlers[n], l)]]]

\* groupby(['bowler', 'delivery_type']).size().unstack(fill_value=0).reset_index():
\* one row per bowler that occurs, one count column per label that occurs
BowlerTrends(t) ==
    LET ok == SelectSeq(t, LAMBDA r : r.bowler # NaN /\ r.delivery_type # NaN)
        bowlers == SortedSeq({ok[i].bowler : i \in 1 .. Len(ok)})
        cols == {ok[i].delivery_type : i \in 1 .. Len(ok)}
    IN  [n \in 1 .. Len(bowlers) |->
            [bowler |-> bowlers[n],
             counts |-> [l \in cols |->
                 Len(SelectSeq(ok, LAMBDA r : r.bowler = bowlers[n] /\ r.delivery_type = l))]]]

\* groupby('bowler')['bowler_economy'].mean().reset_index()
BowlerEconomy(t) ==
    LET ok == SelectSeq(t, LAMBDA r : r.bowler # NaN)
        bowlers == SortedSeq({ok[i].bowler : i \in 1 .. Len(ok)})
    IN  [n \in 1 .. Len(bowlers) |->
            [bowler |-> bowlers[n],
             bowler_economy |->
                 Mean(Column(SelectSeq(ok, LAMBDA r : r.bowler = bowlers[n]), "bowler_economy"))]]

\* ----------------------------------------------------------------- to_csv
\* to_csv(index=False): a header line, then one line per row in column order
BatterCsv(t) ==
    [header |-> <<"batter", "delivery_type", "total_runs", "avg_runs", "balls_faced",
                  "avg_strike_rate">>,
     rows |-> [i \in 1 .. Len(t) |->
                  <<t[i].batter, t[i].delivery_type, t[i].total_runs, t[i].avg_runs,
                    t[i].balls_faced, t[i].avg_strike_rate>>]]

TrendColumns(t) == IF t = <<>> THEN {} ELSE DOMAIN t[1].counts

HasTotal(t) == t # <<>> /\ "total" \in DOMAIN t[1]

TrendsCsv(t) ==
    LET cols == SortedSeq(TrendColumns(t))
    IN  [header |-> <<"bowler">> \o [k \in 1 .. Len(cols) |-> ToString(cols[k])]
                       \o (IF HasTotal(t) THEN <<"total">> ELSE <<>>),
         rows |-> [i \in 1 .. Len(t) |->
                      <<t[i].bowler>> \o [k \in 1 .. Len(cols) |-> t[i].counts[cols[k]]]
                          \o (IF HasTotal(t) THEN <<t[i].total>> ELSE <<>>)]]

EconomyCsv(t) ==
    [header |-> <<"bowler", "bowler_economy">>,
     rows |-> [i \in 1 .. Len(t) |-> <<t[i].bowler, t[i].bowler_economy>>]]

\* ----------------------------------------------------------------- charts
NaNMean == [num |-> 0, den |-> 0]

\* Series.clip(upper=250); NaN stays NaN
Clip(v) == IF v.den > 0 /\ v.num > ClipUpper * v.den THEN [num |-> ClipUpper, den |-> 1] ELSE v

\* groupby('batter')['total_runs'].sum().nlargest(20).index (ties: first kept)
TopBatters(bs) ==
    LET batters == {bs[i].batter : i \in 1 .. Len(bs)}
        tot(b) == SumSeq(Column(SelectSeq(bs, LAMBDA r : r.batter = b), "total_runs"))
    IN  {b \in batters :
            Cardinality({c \in batters : tot(c) > tot(b) \/ (tot(c) = tot(b) /\ c < b)}) < TopN}

\* the clipped strike rates of the top batters, pivoted batter x delivery_type
HeatmapPivot(bs) ==
    LET top == SelectSeq(bs, LAMBDA r : r.batter \in TopBatters(bs))
        batters == SortedSeq({top[i].batter : i \in 1 .. Len(top)})
        cols == {top[i].delivery_type : i \in 1 .. Len(top)}
        Cell(b, l) ==
            LET hit == SelectSeq(top, LAMBDA r : r.batter = b /\ r.delivery_type = l)
            IN  IF hit = <<>> THEN NaNMean ELSE Clip(hit[1].avg_strike_rate)
    IN  [n \in 1 .. Len(batters) |->
            [batter |-> batters[n], cells |-> [l \in cols |-> Cell(batters[n], l)]]]

\* bowler_trends[[0, 1, 2, 3]] raises KeyError unless all four columns exist
BarChartRaises(t) == ~(Labels \subseteq TrendColumns(t))

\* bowler_trends['total'] = bowler_trends[[0, 1, 2, 3]].sum(axis=1)
WithTotal(t) ==
    [i \in 1 .. Len(t) |->
        [bowler |-> t[i].bowler, counts |-> t[i].counts,
         total |-> SumSeq([k \in 1 .. NClusters |-> t[i].counts[k - 1]])]]

RECURSIVE SortByTotalDesc(_)
\* sort_values(by='total', ascending=False); equal totals keep table order
SortByTotalDesc(t) ==
    IF t = <<>> THEN <<>>
    ELSE LET m == CHOOSE i \in 1 .. Len(t) :
                      /\ \A j \in 1 .. Len(t) : t[j].total <= t[i].total
                      /\ \A j \in 1 .. (i - 1) : t[j].total < t[i].total
         IN  <<t[m]>> \o SortByTotalDesc(SubSeq(t, 1, m - 1) \o SubSeq(t, m + 1, Len(t)))

Head20(t) == SubSeq(t, 1, IF Len(t) < TopN THEN Len(t) ELSE TopN)

\* melt(id_vars=['bowler'], value_vars=[0, 1, 2, 3]): one row per (label, bowler)
BowlerLong(t) ==
    LET top == Head20(SortByTotalDesc(t))
    IN  [n \in 1 .. (NClusters * Len(top)) |->
            LET l == (n - 1) \div Len(top)
                i == ((n - 1) % Len(top)) + 1
            IN  [bowler |-> top[i].bowler, delivery_type |-> l, count |-> top[i].counts[l]]]

\* ------------------------------------------------------------------- state
Written(d) == [state |-> "complete", by |-> run, data |-> d]
Truncated == [state |-> "partial", by |-> run, data |-> <<>>]

inputs == <<match_file, delivery_file, missing_column>>
tables == <<match_df, delivery_df, df, categorical, batter_stats, bowler_trends,
            bowler_economy>>

Init ==
    /\ match_file \in MatchFiles
    /\ \E p \in Periods, n \in 0 .. MaxDeliveries : delivery_file = DeliveryFile(p, n)
    /\ missing_column \in MissingColumns
    /\ pc = "load_match"
    /\ run = 1
    /\ match_df = <<>>
    /\ delivery_df = <<>>
    /\ df = <<>>
    /\ categorical = {}
    /\ kmeans_seed42 = {}
    /\ batter_stats = <<>>
    /\ bowler_trends = <<>>
    /\ bowler_economy = <<>>
    /\ files = [f \in OutputFiles |-> NoFile]
    /\ prev_files = [f \in OutputFiles |-> NoFile]
    /\ stdout = <<>>
    /\ traceback = "none"

\* an uncaught exception: the process ends with a traceback and a failure status
Raise ==
    /\ pc' = "failed"
    /\ traceback' = pc
    /\ UNCHANGED <<inputs, run, tables, kmeans_seed42, files, prev_files, stdout>>

\* line 12
LoadMatch ==
    /\ pc = "load_match"
    /\ \/ /\ match_df' = match_file
          /\ pc' = "load_delivery"
          /\ UNCHANGED <<inputs, run, delivery_df, df, categorical, kmeans_seed42,
                         batter_stats, bowler_trends, bowler_economy, files,
                         prev_files, stdout, traceback>>
       \/ Raise      \* the file is missing or unreadable

\* line 13
LoadDelivery ==
    /\ pc = "load_delivery"
    /\ \/ /\ delivery_df' = delivery_file
          /\ pc' = "merge"
          /\ UNCHANGED <<inputs, run, match_df, df, categorical, kmeans_seed42,
                         batter_stats, bowler_trends, bowler_economy, files,
                         prev_files, stdout, traceback>>
       \/ Raise

SetDf(t, next) ==
    /\ df' = t
    /\ pc' = next
    /\ UNCHANGED <<inputs, run, match_df, delivery_df, categorical, kmeans_seed42,
                   batter_stats, bowler_trends, bowler_economy, files, prev_files,
                   stdout, traceback>>

\* line 16
MergeStep ==
    /\ pc = "merge"
    /\ IF missing_column = "match_id" THEN Raise      \* KeyError
       ELSE SetDf(Merge(delivery_df, match_df), "sample")

\* line 19
SampleStep ==
    /\ pc = "sample"
    /\ SetDf(Sample(df), "fillna")

\* line 22
FillnaStep ==
    /\ pc = "fillna"
    /\ SetDf(Fillna(df), "astype")

\* lines 25-26
AstypeStep ==
    /\ pc = "astype"
    /\ IF missing_column \in {"batter", "bowler"} THEN Raise      \* KeyError
       ELSE /\ categorical' = {"batter", "bowler"}
            /\ pc' = "cluster"
            /\ UNCHANGED <<inputs, run, match_df, delivery_df, df, kmeans_seed42,
                           batter_stats, bowler_trends, bowler_economy, files,
                           prev_files, stdout, traceback>>

\* mutant: no random_state, every fit starts from fresh centres
KMeansFitsUnseeded(t) == {{<<v, f[v]>> : v \in FeatureVectors(t)} : f \in Labelings(t)}

\* the fit of KMeans(n_clusters=4, random_state=42) on this table: fixed by the
\* seed, so a table already fitted gets the same labels again
KMeansFits(t) ==
    IF kmeans_seed42 # {} THEN {kmeans_seed42}
    ELSE {{<<v, f[v]>> : v \in FeatureVectors(t)} : f \in Labelings(t)}

\* lines 29-34
ClusterStep ==
    /\ pc = "cluster"
    /\ IF (\E k \in DOMAIN FeatureColumns : FeatureColumns[k] = missing_column)
            \/ ClusterRaises(df)
       THEN Raise      \* KeyError, ValueError
       ELSE \E fit \in KMeansFits(df) :
                /\ kmeans_seed42' = fit
                /\ df' = WithLabels(df, fit)
                /\ pc' = "batter_stats"
                /\ UNCHANGED <<inputs, run, match_df, delivery_df, categorical,
                               batter_stats, bowler_trends, bowler_economy, files,
                               prev_files, stdout, traceback>>

\* lines 37-44
BatterStatsStep ==
    /\ pc = "batter_stats"
    /\ IF missing_column \in {"runs_batter", "batter_strike_rate"} THEN Raise
       ELSE /\ batter_stats' = BatterStats(df)
            /\ pc' = "bowler_trends"
            /\ UNCHANGED <<inputs, run, match_df, delivery_df, df, categorical,
                           kmeans_seed42, bowler_trends, bowler_economy, files,
                           prev_files, stdout, traceback>>

\* line 47
BowlerTrendsStep ==
    /\ pc = "bowler_trends"
    /\ bowler_trends' = BowlerTrends(df)
    /\ pc' = "bowler_economy"
    /\ UNCHANGED <<inputs, run, match_df, delivery_df, df, categorical, kmeans_seed42,
                   batter_stats, bowler_economy, files, prev_files, stdout, traceback>>

\* line 50
BowlerEconomyStep ==
    /\ pc = "bowler_economy"
    /\ bowler_economy' = BowlerEconomy(df)
    /\ pc' = "export_batter"
    /\ UNCHANGED <<inputs, run, match_df, delivery_df, df, categorical, kmeans_seed42,
                   batter_stats, bowler_trends, files, prev_files, stdout, traceback>>

\* mutant: a failed write removes what the run has written so far
ToCsvRollback(f, d, next) ==
    \/ /\ files' = [files EXCEPT ![f] = Written(d)]
       /\ pc' = next
       /\ UNCHANGED <<inputs, run, tables, kmeans_seed42, prev_files, stdout, traceback>>
    \/ /\ files' = [g \in OutputFiles |-> IF files[g].by = run THEN NoFile ELSE files[g]]
       /\ pc' = "failed"
       /\ traceback' = pc
       /\ UNCHANGED <<inputs, run, tables, kmeans_seed42, prev_files, stdout>>

\* to_csv: the file is written whole; or the open fails and the file is left
\* as it was; or the write fails part-way and leaves a truncated file
ToCsv(f, d, next) ==
    \/ /\ files' = [files EXCEPT ![f] = Written(d)]
       /\ pc' = next
       /\ UNCHANGED <<inputs, run, tables, kmeans_seed42, prev_files, stdout, traceback>>
    \/ Raise
    \/ /\ files' = [files EXCEPT ![f] = Truncated]
       /\ pc' = "failed"
       /\ traceback' = pc
       /\ UNCHANGED <<inputs, run, tables, kmeans_seed42, prev_files, stdout>>

\* line 53
ExportBatter ==
    /\ pc = "export_batter"
    /\ ToCsv(BATTER_CSV, BatterCsv(batter_stats), "export_trends")

\* line 54
ExportTrends ==
    /\ pc = "export_trends"
    /\ ToCsv(TRENDS_CSV, TrendsCsv(bowler_trends), "export_economy")

\* line 55
ExportEconomy ==
    /\ pc = "export_economy"
    /\ ToCsv(ECONOMY_CSV, EconomyCsv(bowler_economy), "print")

\* line 57
PrintComplete ==
    /\ pc = "print"
    /\ stdout' = Append(stdout, COMPLETE_MSG)
    /\ pc' = "heatmap"
    /\ UNCHANGED <<inputs, run, tables, kmeans_seed42, files, prev_files, traceback>>

\* mutant: no handler around the chart step
Uncaught(warning, next) ==
    /\ stdout' = stdout
    /\ pc' = "failed"
    /\ files' = files

\* except Exception as e: print(warning, e); the script goes on (a chart
\* step that raised is taken to leave its image file as it was)
Caught(warning, next) ==
    /\ stdout' = Append(stdout, warning)
    /\ pc' = next
    /\ files' = files

\* mutant: the heatmap step also runs ahead of the completion print
HeatmapUnguarded ==
    /\ pc \in {"print", "heatmap"}
    /\ UNCHANGED <<inputs, run, tables, kmeans_seed42, prev_files, traceback>>
    /\ \/ /\ files' = [files EXCEPT ![HEATMAP_PNG] = Written(HeatmapPivot(batter_stats))]
          /\ pc' = "barchart"
          /\ stdout' = stdout
       \/ Caught(HEATMAP_WARNING, "barchart")

\* lines 60-85
Heatmap ==
    /\ pc = "heatmap"
    /\ UNCHANGED <<inputs, run, tables, kmeans_seed42, prev_files, traceback>>
    /\ \/ /\ files' = [files EXCEPT ![HEATMAP_PNG] = Written(HeatmapPivot(batter_stats))]
          /\ pc' = "barchart"
          /\ stdout' = stdout
       \/ Caught(HEATMAP_WARNING, "barchart")      \* rendering or savefig raised

\* lines 88-129
BarChart ==
    /\ pc = "barchart"
    /\ UNCHANGED <<inputs, run, match_df, delivery_df, df, categorical, batter_stats,
                   bowler_economy, kmeans_seed42, prev_files, traceback>>
    /\ IF BarChartRaises(bowler_trends)
       THEN /\ stdout' = Append(stdout, BARCHART_WARNING)      \* KeyError at line 90
            /\ pc' = "done"
            /\ UNCHANGED <<bowler_trends, files>>
       ELSE /\ bowler_trends' = WithTotal(bowler_trends)
            /\ \/ /\ files' = [files EXCEPT ![BARCHART_PNG] =
                                    Written(BowlerLong(WithTotal(bowler_trends)))]
                  /\ pc' = "done"
                  /\ stdout' = stdout
               \/ Caught(BARCHART_WARNING, "done")

\* the script is started again on the same input files
Rerun ==
    /\ pc \in {"done", "failed"}
    /\ run < MaxRuns
    /\ run' = run + 1
    /\ pc' = "load_match"
    /\ prev_files' = files
    /\ match_df' = <<>>
    /\ delivery_df' = <<>>
    /\ df' = <<>>
    /\ categorical' = {}
    /\ batter_stats' = <<>>
    /\ bowler_trends' = <<>>
    /\ bowler_economy' = <<>>
    /\ stdout' = <<>>
    /\ traceback' = "none"
    /\ UNCHANGED <<inputs, kmeans_seed42, files>>

Next ==
    \/ LoadMatch
    \/ LoadDelivery
    \/ MergeStep
    \/ SampleStep
    \/ FillnaStep
    \/ AstypeStep
    \/ ClusterStep
    \/ BatterStatsStep
    \/ BowlerTrendsStep
    \/ BowlerEconomyStep
    \/ ExportBatter
    \/ ExportTrends
    \/ ExportEconomy
    \/ PrintComplete
    \/ Heatmap
    \/ BarChart

Spec == Init /\ [][Next]_vars

\* two or more runs on the same input files, for the full-length files of
\* two-row period that have every required column
InitRerun ==
    /\ Init
    /\ missing_column = "none"
    /\ match_file = <<Match(1, 10), Match(2, NaN), Match(3, 30)>>
    /\ \E a \in DeliveryRows, b \in DeliveryRows :
           delivery_file = DeliveryFile(<<a, b>>, MaxDeliveries)

NextRerun == Next \/ Rerun

SpecRerun == InitRerun /\ [][NextRerun]_vars

\* ------------------------------------------------------------ observation
Stages ==
    << "load_match", "load_delivery", "merge", "sample", "fillna", "astype", "cluster",
       "batter_stats", "bowler_trends", "bowler_economy", "export_batter",
       "export_trends", "export_economy", "print", "heatmap", "barchart", "done" >>

StageIndex(p) == CHOOSE k \in DOMAIN Stages : Stages[k] = p

\* the statement the run is at, or the one that ended it
Position == IF pc = "failed" THEN traceback ELSE pc

\* the run has completed the statement `stage`
After(stage) == StageIndex(Position) > StageIndex(stage)

ByThisRun(f) == files[f].by = run
WrittenByThisRun(f) == files[f].state = "complete" /\ files[f].by = run

Printed(msg) == \E k \in DOMAIN stdout : stdout[k] = msg

\* the inner join counted pair by pair, and the sample before the nulls are filled
JoinCount ==
    Cardinality({<<i, j>> \in (DOMAIN delivery_file) \X (DOMAIN match_file) :
                    delivery_file[i].match_id = match_file[j].match_id})

RawSample == Sample(Merge(delivery_file, match_file))

Fill(v) == IF v = NaN THEN 0 ELSE v

RECURSIVE SumOver(_, _)
SumOver(S, f) ==
    IF S = {} THEN 0
    ELSE LET x == CHOOSE y \in S : TRUE IN f[x] + SumOver(S \ {x}, f)

\* ------------------------------------------------------------------ claims
ChartStages == {"heatmap", "barchart"}
ChartPng(stage) == IF stage = "heatmap" THEN HEATMAP_PNG ELSE BARCHART_PNG
ChartWarning(stage) == IF stage = "heatmap" THEN HEATMAP_WARNING ELSE BARCHART_WARNING
ChartNext(stage) == IF stage = "heatmap" THEN "barchart" ELSE "done"

C1_ChartStep ==
    pc \in ChartStages =>
        /\ \A f \in CsvFiles : WrittenByThisRun(f) /\ files'[f] = files[f]
        /\ pc' = ChartNext(pc)
        /\ \/ /\ files'[ChartPng(pc)].state = "complete"
              /\ files'[ChartPng(pc)].by = run
              /\ stdout' = stdout
           \/ /\ files'[ChartPng(pc)] = files[ChartPng(pc)]
              /\ stdout' = Append(stdout, ChartWarning(pc))

\* C1: once the three CSV files are written, each chart step either saves its
\* image or prints its own warning; either way the script moves on to the
\* other chart step (then ends normally, never with a failure status) and
\* the three CSV files stay exactly as they were written.
C1_ChartFailureIsolation == [][C1_ChartStep]_vars

\* C1 witness: the heatmap step failed, the bar chart was still drawn, the
\* run ended normally with the three CSV files in place.
C1_Witness ==
    /\ pc = "done"
    /\ Printed(HEATMAP_WARNING)
    /\ WrittenByThisRun(BARCHART_PNG)
    /\ ~ByThisRun(HEATMAP_PNG)
    /\ \A f \in CsvFiles : WrittenByThisRun(f)

ExportOrder == <<BATTER_CSV, TRENDS_CSV, ECONOMY_CSV>>
ExportStage == <<"export_batter", "export_trends", "export_economy">>

\* C2 as stated: a run that ends with a fatal failure has written none of
\* the five output files.
C2_NoPartialOutput == pc = "failed" => \A f \in OutputFiles : ~WrittenByThisRun(f)

C2_FailedState ==
    /\ StageIndex(traceback) < StageIndex("print")
    /\ stdout = <<>>
    /\ \A f \in PngFiles : ~ByThisRun(f)
    /\ \A n \in DOMAIN ExportOrder :
          LET f == ExportOrder[n]
              e == StageIndex(ExportStage[n])
          IN  /\ e < StageIndex(traceback) => WrittenByThisRun(f)
              /\ e = StageIndex(traceback) => ~WrittenByThisRun(f)
              /\ e > StageIndex(traceback) => ~ByThisRun(f)

\* C2 amended: a fatal failure ends the run where it is raised, with no
\* retry, no completion marker and no image; a failure before the export
\* leaves no output file written by the run, while a failure of the second
\* or third CSV write leaves the earlier CSV files of the run complete on
\* disk, the file being written incomplete and the later ones unwritten.
C2_FatalTier == [][pc # "failed" /\ (pc' = "failed" => C2_FailedState')]_vars

\* C2 witness: the third CSV write failed part-way, the first two files of
\* the run are on disk.
C2_Witness ==
    /\ pc = "failed"
    /\ traceback = "export_economy"
    /\ WrittenByThisRun(BATTER_CSV)
    /\ WrittenByThisRun(TRENDS_CSV)
    /\ files[ECONOMY_CSV].state = "partial"

ChartEffect ==
    \/ pc \in {"heatmap", "barchart", "done"}
    \/ \E f \in PngFiles : ByThisRun(f)
    \/ Printed(HEATMAP_WARNING)
    \/ Printed(BARCHART_WARNING)

\* C10: the completion marker is printed only once all three CSV files are
\* written, at most once, and it is the first line of output before any
\* chart step starts, writes an image or prints a warning.
C10_StageOrdering ==
    /\ Printed(COMPLETE_MSG) => \A f \in CsvFiles : WrittenByThisRun(f)
    /\ Cardinality({k \in DOMAIN stdout : stdout[k] = COMPLETE_MSG}) <= 1
    /\ ChartEffect => stdout # <<>> /\ stdout[1] = COMPLETE_MSG

\* C10 witness: both chart steps printed a warning after the marker.
C10_Witness ==
    /\ pc = "done"
    /\ stdout = <<COMPLETE_MSG, HEATMAP_WARNING, BARCHART_WARNING>>

LabelsOf(t) == {t[i].delivery_type : i \in DOMAIN t}

\* C3: batter_stats has exactly one row for each (batter, delivery_type) pair
\* of the sampled, clustered table and none for any other pair; its
\* balls_faced is the number of rows of the pair and its total_runs the sum
\* of their runs_batter.
C3_BatterAggregation ==
    After("batter_stats") =>
        /\ \A i \in DOMAIN df :
              Cardinality({k \in DOMAIN batter_stats :
                              /\ batter_stats[k].batter = df[i].batter
                              /\ batter_stats[k].delivery_type = df[i].delivery_type}) = 1
        /\ \A k \in DOMAIN batter_stats :
              LET G == {i \in DOMAIN df :
                           /\ df[i].batter = batter_stats[k].batter
                           /\ df[i].delivery_type = batter_stats[k].delivery_type}
              IN  /\ G # {}
                  /\ batter_stats[k].balls_faced = Cardinality(G)
                  /\ batter_stats[k].total_runs = SumOver(G, [i \in G |-> df[i].runs_batter])

\* C3 witness: the aggregation has run and produced several groups, one of
\* them with more than one ball and with runs scored.
C3_Witness ==
    /\ pc = "done"
    /\ Len(batter_stats) >= 2
    /\ \E k \in DOMAIN batter_stats :
          batter_stats[k].balls_faced >= 2 /\ batter_stats[k].total_runs > 0

LabelNames == {ToString(l) : l \in 0 .. 3}

\* the sum of the delivery-type counts of one line of the bowler-trends file
CountSum(csv, k) ==
    LET J == {j \in DOMAIN csv.header : csv.header[j] \in LabelNames}
    IN  SumOver(J, [j \in J |-> csv.rows[k][j]])

\* C4: in the exported bowler-trends file, every bowler of the sampled table
\* has a line whose delivery-type counts add up to the number of sampled
\* rows bowled by that bowler (a label with no column counting as 0).
C4_TrendsConservation ==
    WrittenByThisRun(TRENDS_CSV) =>
        LET csv == files[TRENDS_CSV].data
        IN  \A i \in DOMAIN df :
                \E k \in DOMAIN csv.rows :
                    /\ csv.rows[k][1] = df[i].bowler
                    /\ CountSum(csv, k) = Cardinality({j \in DOMAIN df : df[j].bowler = df[i].bowler})

\* C4 witness: the file is written and has a bowler with several deliveries
\* next to a 0 cell.
C4_Witness ==
    /\ WrittenByThisRun(TRENDS_CSV)
    /\ \E k \in DOMAIN files[TRENDS_CSV].data.rows :
          LET r == files[TRENDS_CSV].data.rows[k]
          IN  /\ CountSum(files[TRENDS_CSV].data, k) >= 2
              /\ \E j \in 2 .. Len(r) : r[j] = 0

\* C5 as stated: the exported bowler-trends file always has exactly the
\* columns bowler, 0, 1, 2, 3, one line per bowler of the sample, and a 0 in
\* every (bowler, delivery_type) cell for which the sample has no row.
C5_TrendsShape ==
    WrittenByThisRun(TRENDS_CSV) =>
        LET csv == files[TRENDS_CSV].data
        IN  /\ csv.header = <<"bowler", "0", "1", "2", "3">>
            /\ \A i \in DOMAIN df :
                  Cardinality({k \in DOMAIN csv.rows : csv.rows[k][1] = df[i].bowler}) = 1
            /\ \A k \in DOMAIN csv.rows :
                  /\ \E i \in DOMAIN df : df[i].bowler = csv.rows[k][1]
                  /\ \A l \in 0 .. 3 :
                        (\A i \in DOMAIN df :
                            ~(df[i].bowler = csv.rows[k][1] /\ df[i].delivery_type = l))
                        => csv.rows[k][l + 2] = 0

\* C6: once the clustering step has run, every sampled row (none lost, none
\* added) carries one delivery_type, an integer in 0 .. 3, so at most 4
\* distinct labels are present; the tables built later use no other label.
C6_LabelRange ==
    After("cluster") =>
        /\ Len(df) = SampleSize(JoinCount)
        /\ \A i \in DOMAIN df :
              "delivery_type" \in DOMAIN df[i] /\ df[i].delivery_type \in 0 .. 3
        /\ Cardinality(LabelsOf(df)) <= 4
        /\ \A k \in DOMAIN batter_stats : batter_stats[k].delivery_type \in 0 .. 3
        /\ TrendColumns(bowler_trends) \subseteq 0 .. 3

\* C6 witness: a finished run whose sample carries all four labels.
C6_Witness == pc = "done" /\ LabelsOf(df) = 0 .. 3

\* C7: with n the number of (delivery, match) pairs of equal match_id, the
\* sampled table has round(0.3 * n) rows (the integer nearest to 0.3 * n, a
\* tie going to the even one), each a different row of the join.
C7_SampleSize ==
    After("sample") =>
        LET n == JoinCount
            k == Len(df)
            join == Merge(delivery_file, match_file)
        IN  /\ 2 * (FracDen * k - FracNum * n) <= FracDen
            /\ 2 * (FracNum * n - FracDen * k) <= FracDen
            /\ (2 * (FracDen * k - FracNum * n) \in {FracDen, -FracDen}) => k % 2 = 0
            /\ \A i \in DOMAIN df : \A j \in DOMAIN df : i # j => df[i].index # df[j].index
            /\ \A i \in DOMAIN df :
                  /\ df[i].index \in 0 .. (n - 1)
                  /\ \A c \in DOMAIN join[df[i].index + 1] :
                        df[i][c] = Fill(join[df[i].index + 1][c])
                           \/ df[i][c] = join[df[i].index + 1][c]

\* C7 witness: 0.3 * n falls half-way and the sample takes the even size
\* below it, from files in which a match record has no delivery.
C7_Witness ==
    /\ After("sample")
    /\ 2 * (FracNum * JoinCount - FracDen * Len(df)) = FracDen
    /\ \E j \in DOMAIN match_file :
          \A i \in DOMAIN delivery_file : delivery_file[i].match_id # match_file[j].match_id

BatterGroup(raw, i) ==
    {j \in DOMAIN df :
        /\ Fill(raw[j].batter) = Fill(raw[i].batter)
        /\ df[j].delivery_type = df[i].delivery_type}

C9_Filled(raw) ==
    /\ DOMAIN df = DOMAIN raw
    /\ \A i \in DOMAIN df : \A c \in DOMAIN raw[i] : df[i][c] = Fill(raw[i][c])

C9_Counted(raw) ==
    /\ \A i \in DOMAIN df :
          LET G == BatterGroup(raw, i)
          IN  /\ \E k \in DOMAIN batter_stats :
                    /\ batter_stats[k].batter = Fill(raw[i].batter)
                    /\ batter_stats[k].delivery_type = df[i].delivery_type
                    /\ batter_stats[k].balls_faced = Cardinality(G)
                    /\ batter_stats[k].avg_strike_rate =
                          [num |-> SumOver(G, [j \in G |-> Fill(raw[j].batter_strike_rate)]),
                           den |-> Cardinality(G)]
              /\ \E k \in DOMAIN bowler_economy :
                    /\ bowler_economy[k].bowler = Fill(raw[i].bowler)
                    /\ bowler_economy[k].bowler_economy.den =
                          Cardinality({j \in DOMAIN df : raw[j].bowler = raw[i].bowler})
    /\ SumSeq([k \in DOMAIN bowler_trends |->
                  SumOver(DOMAIN bowler_trends[k].counts, bowler_trends[k].counts)])
          = Len(raw)

\* C9: after the fill every value of the sampled table is the sampled value
\* with null replaced by 0; every sampled row, null or not, is counted in
\* balls_faced of its (batter, delivery_type) group and enters the group's
\* avg_strike_rate with its filled value, and is counted in the bowler
\* tables.
C9_MissingValues ==
    LET raw == RawSample
    IN  /\ After("fillna") => C9_Filled(raw)
        /\ After("bowler_economy") => C9_Counted(raw)

\* C9 witness: a finished run in which a sampled row with a null strike
\* rate shares its group with a row that has one.
C9_Witness ==
    /\ pc = "done"
    /\ LET raw == RawSample
       IN  \E i \in DOMAIN df : \E j \in BatterGroup(raw, i) :
               /\ raw[i].batter_strike_rate = NaN
               /\ raw[j].batter_strike_rate > 0

====
